---- MODULE Spec2Model ----
(***************************************************************************)
(* xcap-js: the Deno wrapper (src/mod.ts) over the native capture library  *)
(* bound in src/src-js/ffi.ts.  The wrapper's functions are translated     *)
(* from mod.ts; the native core behind the FFI symbols is a compiled        *)
(* library and is modelled from spec.md (sections 3 to 7).                 *)
(***************************************************************************)
EXTENDS Integers, Sequences, FiniteSets, TLC

\* ------------------------------------------------------------------ bounds
MaxMonitors == 2
MaxCalls == 2

MonitorIds == 1..MaxMonitors
Calls == 1..MaxCalls
Indices == 0..MaxMonitors

\* ------------------------------------------------------- platform (spec 4.1)
\* The monitor lists the platform can report: each active monitor once, in the
\* platform's order (here by identifier).
Ordered(s) == \A k \in 1..(Len(s) - 1) : s[k] < s[k + 1]

Topologies ==
  { s \in UNION { [1..n -> MonitorIds] : n \in 0..MaxMonitors } : Ordered(s) }

IdsOf(s) == { s[k] : k \in 1..Len(s) }

\* The list with monitor id taken out, or put in at its place in the order.
Toggle(s, id) ==
  IF id \in IdsOf(s)
  THEN SelectSeq(s, LAMBDA x : x # id)
  ELSE SelectSeq(s, LAMBDA x : x < id) \o <<id>> \o SelectSeq(s, LAMBDA x : x > id)

\* Geometry of the monitor's current mode (positive for an active monitor).
Width(id) == id + 1
Height(id) == id
NameOf(id) == "Monitor-" \o ToString(id)

\* ---------------------------------------------------- error state (spec 4.4)
NoError == [kind |-> "none"]
ErrText(kind) == [kind |-> kind]

\* ------------------------------------------------- capture session (spec 4.3)
NoCache == [valid |-> FALSE, list |-> <<>>]
InRange(c, i) == c.valid /\ i < Len(c.list)

\* Enumerator: the platform's list, or the empty list and an error.
enumerate(plat, reachable, e) ==
  IF reachable
  THEN [list |-> plat, err |-> e, fail |-> FALSE]
  ELSE [list |-> <<>>, err |-> ErrText("PlatformUnavailable"), fail |-> TRUE]

\* A partially updated list: the new head in front of what is left of the old.
Swap_torn(old, new) ==
  IF old.valid /\ Len(new) >= 1 /\ Len(old.list) >= 2
  THEN [valid |-> TRUE, list |-> <<new[1]>> \o Tail(old.list)]
  ELSE [valid |-> TRUE, list |-> new]

\* refresh_monitors replaces the cached list as a whole.
Swap(old, new) == [valid |-> TRUE, list |-> new]

refresh_monitors(c, e, plat, reachable) ==
  LET r == enumerate(plat, reachable, e)
  IN  [cache |-> Swap(c, r.list), err |-> r.err, fail |-> r.fail,
       ret |-> Len(r.list)]

\* monitor_count: eager enumeration on the first call, the cached count after.
capture_monitor_count(c, e, plat, reachable) ==
  IF ~c.valid
  THEN refresh_monitors(c, e, plat, reachable)
  ELSE [cache |-> c, err |-> e, fail |-> FALSE, ret |-> Len(c.list)]

\* Pure lookups against the cached descriptor; 0 and InvalidIndex otherwise.
capture_monitor_id(c, e, i) ==
  IF InRange(c, i)
  THEN [err |-> e, fail |-> FALSE, ret |-> c.list[i + 1]]
  ELSE [err |-> ErrText("InvalidIndex"), fail |-> TRUE, ret |-> 0]

capture_monitor_width(c, e, i) ==
  IF InRange(c, i)
  THEN [err |-> e, fail |-> FALSE, ret |-> Width(c.list[i + 1])]
  ELSE [err |-> ErrText("InvalidIndex"), fail |-> TRUE, ret |-> 0]

capture_monitor_height(c, e, i) ==
  IF InRange(c, i)
  THEN [err |-> e, fail |-> FALSE, ret |-> Height(c.list[i + 1])]
  ELSE [err |-> ErrText("InvalidIndex"), fail |-> TRUE, ret |-> 0]


\* monitor_name: a text whose ownership passes to the caller, or null when the
\* index is out of range or the platform withholds the name.
capture_monitor_name(c, e, i, withheld) ==
  IF ~InRange(c, i)
  THEN [err |-> ErrText("InvalidIndex"), fail |-> TRUE, ptr |-> 0, text |-> ""]
  ELSE IF withheld
       THEN [err |-> e, fail |-> FALSE, ptr |-> 0, text |-> ""]
       ELSE [err |-> e, fail |-> FALSE, ptr |-> i + 1,
             text |-> NameOf(c.list[i + 1])]

\* last_error_message: null while no error was recorded, else the slot's text.
capture_last_error_message(e) ==
  IF e = NoError THEN [ptr |-> 0, text |-> e] ELSE [ptr |-> 1, text |-> e]

\* One exclusive lock serializes the access to the cached list and ErrorState.
CanEnter_unlocked(l) == TRUE

CanEnter(l) == l = 0

\* --------------------------------------------------- native text allocations
StrPtrs == 1..MaxMonitors
NoStr == [st |-> "unalloc", text |-> ""]

\* capture_free_string: releases the text behind a pointer.
capture_free_string(h, ptr) ==
  IF ptr \in DOMAIN h.mem
  THEN IF h.mem[ptr].st = "live"
       THEN [h EXCEPT !.mem[ptr].st = "freed"]
       ELSE [h EXCEPT !.fault = "double_free"]
  ELSE [h EXCEPT !.fault = "free_null"]

\* ------------------------------------------------------------------- mod.ts
JsNull == [kind |-> "null"]

\* The text read without the test for a null pointer.
getLastError_noNullCheck(e) == capture_last_error_message(e).text

\* getLastError(): null for a null pointer, else the text read at the pointer.
getLastError(e) ==
  LET p == capture_last_error_message(e)
  IN  IF p.ptr = 0 THEN JsNull ELSE p.text

\* if (error): null and the empty text are falsy.
Truthy(error) == error # JsNull

\* UnsafePointerView(ptr).getCString(): copies the text behind ptr into a string.
getCString(h, ptr) ==
  IF ptr \in DOMAIN h.mem /\ h.mem[ptr].st = "live"
  THEN [h |-> h, text |-> h.mem[ptr].text]
  ELSE [h |-> [h EXCEPT !.fault = "use_after_free"], text |-> "garbage"]

\* The release sits in the try block: a throwing read skips it.
readName_noFinally(h, namePtr, throws) ==
  IF namePtr # 0
  THEN IF throws
       THEN [h |-> h, name |-> "Unknown", freed |-> 0]
       ELSE LET r == getCString(h, namePtr)
            IN  [h |-> capture_free_string(r.h, namePtr), name |-> r.text,
                 freed |-> 1]
  ELSE [h |-> h, name |-> "Unknown", freed |-> 0]

\* getMonitors, the name of one monitor: read in try, release in finally.
readName(h, namePtr, throws) ==
  IF namePtr # 0
  THEN IF throws
       THEN [h |-> capture_free_string(h, namePtr), name |-> "Unknown",
             freed |-> 1]
       ELSE LET r == getCString(h, namePtr)
            IN  [h |-> capture_free_string(r.h, namePtr), name |-> r.text,
                 freed |-> 1]
  ELSE [h |-> h, name |-> "Unknown", freed |-> 0]

\* The entry built with the width in the place of the height.
MonitorInfo_swapped(id, name, i, width, height) ==
  [id |-> id, name |-> name, index |-> i, width |-> height, height |-> width]

MonitorInfo(id, name, i, width, height) ==
  [id |-> id, name |-> name, index |-> i, width |-> width, height |-> height]


\* ------------------------------------------------ frame grabber (spec 4.2)
\* The frame record crossing the boundary, by byte offset (ffi.ts struct).
OffData == 0
OffLen == 8
OffWidth == 16
OffHeight == 20

EncodeFrame(data, len, width, height) ==
  (OffData :> data) @@ (OffLen :> len) @@ (OffWidth :> width)
    @@ (OffHeight :> height)

NoFrame == EncodeFrame(0, 0, 0, 0)

\* Addresses: the buffer of call c lies at c; DanglingPtr is a non-null address
\* that owns no buffer (the data pointer of an empty vector).
DanglingPtr == MaxCalls + 1
FailPtrs == {0, DanglingPtr}

InList(id, plat) == \E k \in 1..Len(plat) : plat[k] = id

\* capture(index): resolve the index against the cached list, never enumerating.
capture_resolve(c, i) ==
  IF InRange(c, i) THEN [ok |-> TRUE, id |-> c.list[i + 1]]
  ELSE [ok |-> FALSE, id |-> 0]

\* The rest of capture_image: InvalidIndex without asking the platform; else one
\* grab, which fails when the monitor is gone or the platform refuses, and
\* otherwise yields an unpadded RGBA buffer of width*height*4 bytes.
capture_monitor_image(r, e, i, plat, platOk, buf, failPtr) ==
  IF ~r.ok
  THEN [raw |-> EncodeFrame(failPtr, 0, 0, 0), err |-> ErrText("InvalidIndex"),
        fail |-> TRUE, touched |-> FALSE, alloc |-> FALSE]
  ELSE IF ~InList(r.id, plat)
  THEN [raw |-> EncodeFrame(failPtr, 0, 0, 0), err |-> ErrText("MonitorGone"),
        fail |-> TRUE, touched |-> TRUE, alloc |-> FALSE]
  ELSE IF ~platOk
  THEN [raw |-> EncodeFrame(failPtr, 0, 0, 0), err |-> ErrText("CaptureFailed"),
        fail |-> TRUE, touched |-> TRUE, alloc |-> FALSE]
  ELSE [raw |-> EncodeFrame(buf, Width(r.id) * Height(r.id) * 4, Width(r.id),
                            Height(r.id)),
        err |-> e, fail |-> FALSE, touched |-> TRUE, alloc |-> TRUE]

\* capture_free_image: releases the buffer of a frame record; nothing to
\* release for a null or zero-length frame.
capture_free_image(h, raw) ==
  IF raw[OffData] \in DOMAIN h /\ raw[OffLen] > 0
  THEN IF h[raw[OffData]] = "live"
       THEN [h EXCEPT ![raw[OffData]] = "freed"]
       ELSE [h EXCEPT ![raw[OffData]] = "double_freed"]
  ELSE h

\* ------------------------------------------------- mod.ts, captureMonitor
\* The height read at the width's offset.
heightOf_wrongOffset(raw) == raw[OffWidth]

dataPtrOf(raw) == raw[OffData]
lenValueOf(raw) == raw[OffLen]
widthOf(raw) == raw[OffWidth]
heightOf(raw) == raw[OffHeight]

\* Only the null pointer is taken for a failure.
isFailedFrame_nullOnly(dataPtr, lenValue) == dataPtr = 0

\* The two tests joined by && in the place of ||.
isFailedFrame_and(dataPtr, lenValue) == dataPtr = 0 /\ lenValue = 0

\* if (dataPtr === null || lenValue === 0)
isFailedFrame(dataPtr, lenValue) == dataPtr = 0 \/ lenValue = 0

\* Backing stores: JsStore is memory the JS heap manages, any other store is
\* the native address the bytes lie at.
JsStore == 0
NoData == [store |-> JsStore, length |-> 0, null |-> TRUE]

\* UnsafePointerView.getArrayBuffer(len): an ArrayBuffer over the memory at ptr.
getArrayBuffer(ptr, len) == [store |-> ptr, byteLength |-> len]

\* new Uint8Array(arrayBuffer): a view sharing the buffer's backing store.
Uint8ArrayOf(ab) == [store |-> ab.store, length |-> ab.byteLength, null |-> FALSE]

\* The release called in the try block and again in finally.
readImage_freeTwice(h, raw, throws) ==
  LET h1 == capture_free_image(h, raw)
  IN  IF throws
      THEN [h |-> capture_free_image(h1, raw), imageData |-> NoData, frees |-> 2]
      ELSE [h |-> capture_free_image(h1, raw), frees |-> 2,
            imageData |-> Uint8ArrayOf(getArrayBuffer(dataPtrOf(raw), lenValueOf(raw)))]

\* try { imageData = ... } catch { log } finally { capture_free_image(rawStruct) }
readImage(h, raw, throws) ==
  IF throws
  THEN [h |-> capture_free_image(h, raw), imageData |-> NoData, frees |-> 1]
  ELSE [h |-> capture_free_image(h, raw), frees |-> 1,
        imageData |-> Uint8ArrayOf(getArrayBuffer(dataPtrOf(raw), lenValueOf(raw)))]

NoOut ==
  [kind |-> "none", data |-> NoData, width |-> 0, height |-> 0, msg |-> JsNull]
Resolved(data, width, height) ==
  [kind |-> "resolved", data |-> data, width |-> width, height |-> height,
   msg |-> JsNull]
Rejected(msg) ==
  [kind |-> "rejected", data |-> NoData, width |-> 0, height |-> 0, msg |-> msg]


\* -------------------------------------------------------------------- state
VARIABLES
  platform,    \* the monitors the operating system reports now
  cache,       \* Capture Session: the cached enumeration
  err,         \* ErrorState: the process-wide last-error slot
  lock,        \* the session lock: 0 free, c held by the worker of call c
  failedStep,  \* a native operation of the last step returned a failure
  everFailed,  \* some native operation has failed so far
  mpc,         \* main thread: where the synchronous JS code stands
  gm,          \* getMonitors: its locals
  gmOut,       \* getMonitors: what the call ended with
  strHeap,     \* native texts handed to the caller, and misuse of them
  errRead,     \* what the last getLastError() call returned
  cpc,         \* captureMonitor call c: where it stands
  cidx,        \* captureMonitor call c: monitorIndex
  cres,        \* worker of call c: the descriptor its index resolved to
  raw,         \* call c: the frame record capture_monitor_image returned
  heap,        \* native frame buffers, by address
  frees,       \* call c: capture_free_image calls made with its record
  out,         \* call c: what the promise settled with
  touched,     \* call c: the graphics service was asked to capture
  nerr         \* call c: the error text its native capture recorded

nativeVars == <<platform, cache, err, lock, failedStep, everFailed>>
gmVars == <<gm, gmOut, strHeap>>
callVars == <<cpc, cidx, cres, raw, heap, frees, out, touched, nerr>>
vars == <<platform, cache, err, lock, failedStep, everFailed, mpc, gm, gmOut,
          strHeap, errRead, cpc, cidx, cres, raw, heap, frees, out, touched, nerr>>

NoGm ==
  [count |-> 0, i |-> 0, name |-> "Unknown", id |-> 0, width |-> 0,
   monitors |-> <<>>, ptrs |-> <<>>, enum |-> <<>>, enumerated |-> FALSE,
   enumFailed |-> FALSE]
NoGmOut == [kind |-> "none", monitors |-> <<>>, msg |-> JsNull]
EmptyStrHeap == [mem |-> [p \in StrPtrs |-> NoStr], fault |-> "none"]
NoRes == [ok |-> FALSE, id |-> 0]

Init ==
  /\ platform \in Topologies
  /\ cache = NoCache
  /\ err = NoError
  /\ lock = 0
  /\ failedStep = FALSE
  /\ everFailed = FALSE
  /\ mpc = "idle"
  /\ gm = NoGm
  /\ gmOut = NoGmOut
  /\ strHeap = EmptyStrHeap
  /\ errRead = JsNull
  /\ cpc = [c \in Calls |-> "idle"]
  /\ cidx = [c \in Calls |-> 0]
  /\ cres = [c \in Calls |-> NoRes]
  /\ raw = [c \in Calls |-> NoFrame]
  /\ heap = [c \in Calls |-> "unalloc"]
  /\ frees = [c \in Calls |-> 0]
  /\ out = [c \in Calls |-> NoOut]
  /\ touched = [c \in Calls |-> FALSE]
  /\ nerr = [c \in Calls |-> NoError]

\* --------------------------------------------------------------- environment
\* A monitor is connected or disconnected, at any time.
PlatformChange ==
  /\ \E id \in MonitorIds : platform' = Toggle(platform, id)
  /\ UNCHANGED <<cache, err, lock, failedStep, everFailed, mpc, errRead>>
  /\ UNCHANGED gmVars
  /\ UNCHANGED callVars

\* The host asks the session for an explicit refresh (spec 4.3).
refreshMonitors ==
  /\ mpc = "idle"
  /\ CanEnter(lock)
  /\ \E reachable \in BOOLEAN :
       LET r == refresh_monitors(cache, err, platform, reachable)
       IN  /\ cache' = r.cache
           /\ err' = r.err
           /\ failedStep' = r.fail
           /\ everFailed' = (everFailed \/ r.fail)
  /\ UNCHANGED <<platform, lock, mpc, errRead>>
  /\ UNCHANGED gmVars
  /\ UNCHANGED callVars

\* ------------------------------------------------------- mod.ts, getLastError
getLastError_call ==
  /\ mpc = "idle"
  /\ CanEnter(lock)
  /\ errRead' = getLastError(err)
  /\ mpc' = "gle_done"
  /\ failedStep' = FALSE
  /\ UNCHANGED <<platform, cache, err, lock, everFailed>>
  /\ UNCHANGED gmVars
  /\ UNCHANGED callVars

\* The caller has taken the returned text.
getLastError_end ==
  /\ mpc = "gle_done"
  /\ mpc' = "idle"
  /\ errRead' = JsNull
  /\ UNCHANGED <<platform, cache, err, lock, failedStep, everFailed>>
  /\ UNCHANGED gmVars
  /\ UNCHANGED callVars

\* -------------------------------------------------------- mod.ts, getMonitors
\* const count = capture_monitor_count(); if (count === 0n) ...
getMonitors_count ==
  /\ mpc = "idle"
  /\ CanEnter(lock)
  /\ \E reachable \in BOOLEAN :
       LET r == capture_monitor_count(cache, err, platform, reachable)
       IN  /\ cache' = r.cache
           /\ err' = r.err
           /\ failedStep' = r.fail
           /\ everFailed' = (everFailed \/ r.fail)
           /\ gm' = [NoGm EXCEPT !.count = r.ret, !.enum = r.cache.list,
                                 !.enumerated = ~cache.valid,
                                 !.enumFailed = r.fail]
           /\ mpc' = IF r.ret = 0 THEN "gm_zero" ELSE "gm_name"
  /\ UNCHANGED <<platform, lock, gmOut, strHeap, errRead>>
  /\ UNCHANGED callVars

\* count === 0n: throw when getLastError() gives a text, else return [].
getMonitors_zero ==
  /\ mpc = "gm_zero"
  /\ CanEnter(lock)
  /\ LET error == getLastError(err)
     IN  gmOut' = IF Truthy(error)
                  THEN [kind |-> "threw", monitors |-> <<>>, msg |-> error]
                  ELSE [kind |-> "returned", monitors |-> <<>>, msg |-> JsNull]
  /\ mpc' = "gm_done"
  /\ failedStep' = FALSE
  /\ UNCHANGED <<platform, cache, err, lock, everFailed, gm, strHeap, errRead>>
  /\ UNCHANGED callVars

\* namePtr = capture_monitor_name(i); read it, release it.
getMonitors_name ==
  /\ mpc = "gm_name"
  /\ CanEnter(lock)
  /\ \E withheld \in BOOLEAN, throws \in BOOLEAN :
       LET n == capture_monitor_name(cache, err, gm.i, withheld)
           h0 == IF n.ptr # 0
                 THEN [strHeap EXCEPT !.mem[n.ptr] = [st |-> "live", text |-> n.text]]
                 ELSE strHeap
           r == readName(h0, n.ptr, throws)
       IN  /\ err' = n.err
           /\ failedStep' = n.fail
           /\ everFailed' = (everFailed \/ n.fail)
           /\ strHeap' = r.h
           /\ gm' = [gm EXCEPT !.name = r.name, !.ptrs = Append(@, n.ptr)]
  /\ mpc' = "gm_id"
  /\ UNCHANGED <<platform, cache, lock, gmOut, errRead>>
  /\ UNCHANGED callVars

\* const id = capture_monitor_id(i);
getMonitors_id ==
  /\ mpc = "gm_id"
  /\ CanEnter(lock)
  /\ LET r == capture_monitor_id(cache, err, gm.i)
     IN  /\ err' = r.err
         /\ failedStep' = r.fail
         /\ everFailed' = (everFailed \/ r.fail)
         /\ gm' = [gm EXCEPT !.id = r.ret]
  /\ mpc' = "gm_width"
  /\ UNCHANGED <<platform, cache, lock, gmOut, strHeap, errRead>>
  /\ UNCHANGED callVars

\* const width = capture_monitor_width(i);
getMonitors_width ==
  /\ mpc = "gm_width"
  /\ CanEnter(lock)
  /\ LET r == capture_monitor_width(cache, err, gm.i)
     IN  /\ err' = r.err
         /\ failedStep' = r.fail
         /\ everFailed' = (everFailed \/ r.fail)
         /\ gm' = [gm EXCEPT !.width = r.ret]
  /\ mpc' = "gm_height"
  /\ UNCHANGED <<platform, cache, lock, gmOut, strHeap, errRead>>
  /\ UNCHANGED callVars

\* const height = capture_monitor_height(i); monitors.push(...); i++; the loop
\* test, and return monitors once i reaches count.
getMonitors_height ==
  /\ mpc = "gm_height"
  /\ CanEnter(lock)
  /\ LET r == capture_monitor_height(cache, err, gm.i)
         ms == Append(gm.monitors, MonitorInfo(gm.id, gm.name, gm.i, gm.width, r.ret))
     IN  /\ err' = r.err
         /\ failedStep' = r.fail
         /\ everFailed' = (everFailed \/ r.fail)
         /\ gm' = [gm EXCEPT !.monitors = ms, !.i = @ + 1, !.name = "Unknown",
                             !.id = 0, !.width = 0]
         /\ IF gm.i + 1 < gm.count
            THEN /\ mpc' = "gm_name"
                 /\ gmOut' = gmOut
            ELSE /\ mpc' = "gm_done"
                 /\ gmOut' = [kind |-> "returned", monitors |-> ms, msg |-> JsNull]
  /\ UNCHANGED <<platform, cache, lock, strHeap, errRead>>
  /\ UNCHANGED callVars

\* The caller takes the result (or the exception); the main thread is free.
getMonitors_end ==
  /\ mpc = "gm_done"
  /\ mpc' = "idle"
  /\ gm' = NoGm
  /\ gmOut' = NoGmOut
  /\ strHeap' = EmptyStrHeap
  /\ UNCHANGED <<platform, cache, err, lock, failedStep, everFailed, errRead>>
  /\ UNCHANGED callVars


\* ----------------------------------------------------- mod.ts, captureMonitor
\* captureMonitor(monitorIndex): the nonblocking FFI call is handed to a worker.
InFlight == Cardinality({c \in Calls : cpc[c] # "idle"})

captureMonitor_call(c, limit) ==
  /\ mpc = "idle"
  /\ cpc[c] = "idle"
  /\ \A d \in Calls : d < c => cpc[d] # "idle"
  /\ InFlight < limit
  /\ \E i \in Indices : cidx' = [cidx EXCEPT ![c] = i]
  /\ cpc' = [cpc EXCEPT ![c] = "queued"]
  /\ UNCHANGED <<mpc, errRead, cres, raw, heap, frees, out, touched, nerr>>
  /\ UNCHANGED nativeVars
  /\ UNCHANGED gmVars

\* Worker: capture_image takes the session lock and resolves its index.
capture_enter(c) ==
  /\ cpc[c] = "queued"
  /\ CanEnter(lock)
  /\ lock' = c
  /\ cres' = [cres EXCEPT ![c] = capture_resolve(cache, cidx[c])]
  /\ cpc' = [cpc EXCEPT ![c] = "grab"]
  /\ UNCHANGED <<platform, cache, err, failedStep, everFailed, mpc, errRead,
                 cidx, raw, heap, frees, out, touched, nerr>>
  /\ UNCHANGED gmVars

\* Worker: the grab, the frame record (or the error), the lock given back.
capture_finish(c) ==
  /\ cpc[c] = "grab"
  /\ \E platOk \in BOOLEAN, failPtr \in FailPtrs :
       LET r == capture_monitor_image(cres[c], err, cidx[c], platform, platOk,
                                      c, failPtr)
       IN  /\ raw' = [raw EXCEPT ![c] = r.raw]
           /\ err' = r.err
           /\ failedStep' = r.fail
           /\ everFailed' = (everFailed \/ r.fail)
           /\ heap' = IF r.alloc THEN [heap EXCEPT ![c] = "live"] ELSE heap
           /\ touched' = [touched EXCEPT ![c] = r.touched]
           /\ nerr' = [nerr EXCEPT ![c] = IF r.fail THEN r.err ELSE NoError]
  /\ lock' = 0
  /\ cpc' = [cpc EXCEPT ![c] = "returned"]
  /\ UNCHANGED <<platform, cache, mpc, errRead, cidx, cres, frees, out>>
  /\ UNCHANGED gmVars

\* Main thread, after the await: decode the record; a failed frame is released
\* (the error is read in the next native call), any other is read and released
\* and the promise settles.
captureMonitor_resume(c) ==
  /\ mpc = "idle"
  /\ cpc[c] = "returned"
  /\ IF isFailedFrame(dataPtrOf(raw[c]), lenValueOf(raw[c]))
     THEN /\ heap' = capture_free_image(heap, raw[c])
          /\ frees' = [frees EXCEPT ![c] = @ + 1]
          /\ mpc' = "cm_err"
          /\ cpc' = [cpc EXCEPT ![c] = "failing"]
          /\ out' = out
     ELSE \E throws \in BOOLEAN :
            LET r == readImage(heap, raw[c], throws)
            IN  /\ heap' = r.h
                /\ frees' = [frees EXCEPT ![c] = @ + r.frees]
                /\ mpc' = mpc
                /\ cpc' = [cpc EXCEPT ![c] = "settled"]
                /\ out' = [out EXCEPT ![c] =
                     IF r.imageData.null
                     THEN Rejected(ErrText("ReadFailed"))
                     ELSE Resolved(r.imageData, widthOf(raw[c]), heightOf(raw[c]))]
  /\ failedStep' = FALSE
  /\ UNCHANGED <<platform, cache, err, lock, everFailed, errRead, cidx, cres, raw,
                 touched, nerr>>
  /\ UNCHANGED gmVars

\* const error = getLastError(); throw new Error(... error || "Null data ...")
captureMonitor_fail(c) ==
  /\ mpc = "cm_err"
  /\ cpc[c] = "failing"
  /\ CanEnter(lock)
  /\ LET error == getLastError(err)
     IN  out' = [out EXCEPT ![c] =
           Rejected(IF Truthy(error) THEN error
                    ELSE ErrText("NullDataOrZeroLength"))]
  /\ mpc' = "idle"
  /\ cpc' = [cpc EXCEPT ![c] = "settled"]
  /\ failedStep' = FALSE
  /\ UNCHANGED <<platform, cache, err, lock, everFailed, errRead, cidx, cres, raw,
                 heap, frees, touched, nerr>>
  /\ UNCHANGED gmVars

\* The caller has taken the settled promise; the slot serves a later call.
captureMonitor_end(c) ==
  /\ cpc[c] = "settled"
  /\ cpc' = [cpc EXCEPT ![c] = "idle"]
  /\ cidx' = [cidx EXCEPT ![c] = 0]
  /\ cres' = [cres EXCEPT ![c] = NoRes]
  /\ raw' = [raw EXCEPT ![c] = NoFrame]
  /\ heap' = [heap EXCEPT ![c] = "unalloc"]
  /\ frees' = [frees EXCEPT ![c] = 0]
  /\ out' = [out EXCEPT ![c] = NoOut]
  /\ touched' = [touched EXCEPT ![c] = FALSE]
  /\ nerr' = [nerr EXCEPT ![c] = NoError]
  /\ UNCHANGED <<mpc, errRead>>
  /\ UNCHANGED nativeVars
  /\ UNCHANGED gmVars

\* ------------------------------------------------------------ specification
Step(limit) ==
  \/ PlatformChange
  \/ refreshMonitors
  \/ getLastError_call
  \/ getLastError_end
  \/ getMonitors_count
  \/ getMonitors_zero
  \/ getMonitors_name
  \/ getMonitors_id
  \/ getMonitors_width
  \/ getMonitors_height
  \/ getMonitors_end
  \/ \E c \in Calls : captureMonitor_call(c, limit)
  \/ \E c \in Calls : capture_enter(c)
  \/ \E c \in Calls : capture_finish(c)
  \/ \E c \in Calls : captureMonitor_resume(c)
  \/ \E c \in Calls : captureMonitor_fail(c)
  \/ \E c \in Calls : captureMonitor_end(c)

\* One capture in flight at a time beside the main thread's calls.
Next == Step(1)

Spec == Init /\ [][Next]_vars

\* The wrapper's own calls with every capture slot in flight at once: several
\* captureMonitor calls beside getMonitors, the topology staying as it is.
NextAll ==
  \/ getMonitors_count
  \/ getMonitors_zero
  \/ getMonitors_name
  \/ getMonitors_id
  \/ getMonitors_width
  \/ getMonitors_height
  \/ getMonitors_end
  \/ \E c \in Calls : captureMonitor_call(c, MaxCalls)
  \/ \E c \in Calls : capture_enter(c)
  \/ \E c \in Calls : capture_finish(c)
  \/ \E c \in Calls : captureMonitor_resume(c)
  \/ \E c \in Calls : captureMonitor_fail(c)
  \/ \E c \in Calls : captureMonitor_end(c)

SpecAll == Init /\ [][NextAll]_vars


\* ------------------------------------------------------------------- claims
Done(c) == cpc[c] = "settled"
Back(c) == cpc[c] \in {"returned", "failing", "settled"}
InGetMonitors == mpc \in {"gm_zero", "gm_name", "gm_id", "gm_width", "gm_height", "gm_done"}

\* C1: the frame record a captureMonitor call got back is passed to
\* capture_free_image exactly once before the promise settles, on the failure
\* path, the read path and the path where the read throws; never twice, and no
\* buffer is left unreleased.
C1_FrameReleasedOnce ==
  \A c \in Calls :
    /\ frees[c] <= 1
    /\ heap[c] # "double_freed"
    /\ Done(c) => frees[c] = 1 /\ heap[c] # "live"
    /\ cpc[c] = "failing" => frees[c] = 1

\* The read threw, and the record was still released once.
C1_Witness ==
  \E c \in Calls :
    /\ Done(c)
    /\ out[c].kind = "rejected"
    /\ out[c].msg = ErrText("ReadFailed")
    /\ frees[c] = 1
    /\ heap[c] = "freed"

\* C2: the data captureMonitor resolves with is a copy in JS-managed memory: it
\* shares no byte with a native buffer that has been released.
C2_ResultIsCopy ==
  \A c \in Calls :
    out[c].kind = "resolved" =>
      ~(out[c].data.store \in DOMAIN heap /\ heap[out[c].data.store] = "freed")

\* C3: in getMonitors every non-null name pointer is released exactly once, also
\* when the read throws, and is read only while live; a null pointer is never
\* released and gives the name "Unknown" with the monitor kept in the result.
C3_NameReleasedOnce ==
  /\ strHeap.fault = "none"
  /\ \A p \in StrPtrs : strHeap.mem[p].st # "live"
  /\ InGetMonitors =>
       \A k \in 1..Len(gm.ptrs) :
         IF gm.ptrs[k] = 0
         THEN k <= Len(gm.monitors) => gm.monitors[k].name = "Unknown"
         ELSE strHeap.mem[gm.ptrs[k]].st = "freed"
  /\ (mpc = "gm_done" /\ gmOut.kind = "returned") =>
       Len(gmOut.monitors) = Len(gm.ptrs)

\* One name was withheld (null), one was read and released, one read threw.
C3_Witness ==
  /\ mpc = "gm_done"
  /\ gmOut.kind = "returned"
  /\ Len(gmOut.monitors) = 2
  /\ gm.ptrs[1] = 0
  /\ gmOut.monitors[1].name = "Unknown"
  /\ gm.ptrs[2] # 0
  /\ gmOut.monitors[2].name = "Unknown"
  /\ strHeap.mem[gm.ptrs[2]].st = "freed"

\* C4: a capture that resolves carries data of exactly width * height * 4 bytes.
C4_LengthMatchesDimensions ==
  \A c \in Calls :
    out[c].kind = "resolved" =>
      out[c].data.length = out[c].width * out[c].height * 4

\* A resolved capture of a monitor that is not square.
C4_Witness ==
  \E c \in Calls :
    /\ Done(c)
    /\ out[c].kind = "resolved"
    /\ out[c].width # out[c].height
    /\ out[c].data.length > 0

\* C5: a frame with zero length, a null data pointer or a zero width or height
\* is a capture failure: captureMonitor rejects, and never resolves with empty
\* data or a zero dimension.
C5_EmptyFrameRejected ==
  \A c \in Calls :
    /\ (Back(c) /\ (raw[c][OffData] = 0 \/ raw[c][OffLen] = 0
                    \/ raw[c][OffWidth] = 0 \/ raw[c][OffHeight] = 0)) =>
         /\ out[c].kind # "resolved"
         /\ Done(c) => out[c].kind = "rejected"
    /\ out[c].kind = "resolved" =>
         out[c].data.length > 0 /\ out[c].width > 0 /\ out[c].height > 0

\* A zero-length frame whose data pointer is not null was rejected.
C5_Witness ==
  \E c \in Calls :
    /\ Done(c)
    /\ raw[c][OffData] = DanglingPtr
    /\ raw[c][OffLen] = 0
    /\ out[c].kind = "rejected"


\* C6: a capture whose index is not below the cached count (one past the end,
\* larger, count 0, or nothing enumerated yet) fails with InvalidIndex: the
\* graphics service is not asked, nothing is enumerated on the way, and
\* captureMonitor rejects.
C6_State ==
  \A c \in Calls :
    /\ (cpc[c] = "grab" /\ ~InRange(cache, cidx[c])) => ~cres[c].ok
    /\ (Back(c) /\ ~cres[c].ok) =>
         /\ ~touched[c]
         /\ nerr[c] = ErrText("InvalidIndex")
         /\ out[c].kind # "resolved"
         /\ Done(c) => out[c].kind = "rejected"

C6_NoEnumeration ==
  \A c \in Calls :
    (cpc[c] \in {"queued", "grab"} /\ cpc'[c] # cpc[c]) => cache' = cache

C6_InvalidIndexFails == []C6_State /\ [][C6_NoEnumeration]_vars

\* Index 0 captured before any enumeration: rejected, the platform not asked.
C6_Witness ==
  \E c \in Calls :
    /\ Done(c)
    /\ ~cache.valid
    /\ cidx[c] = 0
    /\ ~touched[c]
    /\ out[c].kind = "rejected"
    /\ out[c].msg = ErrText("InvalidIndex")

\* C7: reading the last error does not change it, and only a failing operation
\* changes the slot: a successful enumeration, lookup, capture or release leaves
\* the text as it was, and null is returned until the first failing operation.
C7_State == ~everFailed => err = NoError

C7_Frame ==
  /\ err' # err => failedStep' /\ err' # NoError
  /\ (mpc = "idle" /\ mpc' = "gle_done") =>
       /\ err' = err
       /\ errRead' = JsNull <=> ~everFailed
       /\ errRead' # JsNull => errRead' = err

C7_LastErrorKept == []C7_State /\ [][C7_Frame]_vars

\* A capture resolved after an earlier failure, and the read still gives the
\* failure's text.
C7_Witness ==
  /\ mpc = "gle_done"
  /\ errRead = ErrText("InvalidIndex")
  /\ ~failedStep
  /\ \E c \in Calls : out[c].kind = "resolved"

\* C8: getMonitors throws only when the native library failed to retrieve the
\* monitors during that call: when the call's enumeration succeeds with zero
\* monitors it returns an empty array, whatever text the error slot holds from
\* an earlier failed operation.
C8_ZeroMonitorsReturnsEmpty ==
  (mpc = "gm_done" /\ gm.enumerated /\ ~gm.enumFailed /\ gm.count = 0) =>
    gmOut.kind = "returned"

\* C9: within one getMonitors call the count and the lookups are answered from
\* one cached enumeration: the cached list stays what the count was taken from,
\* the result has count entries, entry k carries index k, and its id, name,
\* width and height are those of the k-th monitor of that enumeration.
EntryOf(list, k, m) ==
  /\ m.index = k - 1
  /\ m.id = list[k]
  /\ m.id # 0
  /\ m.width = Width(list[k])
  /\ m.height = Height(list[k])
  /\ m.name \in {NameOf(list[k]), "Unknown"}

C9_OneEnumeration ==
  InGetMonitors =>
    /\ cache.valid
    /\ cache.list = gm.enum
    /\ gm.count = Len(gm.enum)
    /\ Len(gm.monitors) <= gm.count
    /\ \A k \in 1..Len(gm.monitors) : EntryOf(gm.enum, k, gm.monitors[k])
    /\ (mpc = "gm_done" /\ gmOut.kind = "returned") =>
         /\ gmOut.monitors = gm.monitors
         /\ Len(gmOut.monitors) = gm.count

\* Two monitors returned although the topology changed while the call ran.
C9_Witness ==
  /\ mpc = "gm_done"
  /\ gmOut.kind = "returned"
  /\ Len(gmOut.monitors) = 2
  /\ gmOut.monitors[2].width # gmOut.monitors[2].height
  /\ platform # gm.enum

\* C10: the cached list is replaced as a whole, and the accesses to it and to
\* the error slot are serialized: while a worker's capture holds the session,
\* the main thread neither enumerates, looks up nor reads the error, and the
\* slot is written by that capture alone; a capture resolves its index against
\* the list as it stands, complete.
C10_State ==
  /\ lock \in Calls => cpc[lock] = "grab"
  /\ \A c \in Calls :
       cpc[c] = "grab" => lock = c /\ cres[c] = capture_resolve(cache, cidx[c])

C10_Step ==
  /\ cache' # cache =>
       cache'.valid /\ (cache'.list = platform \/ cache'.list = <<>>)
  /\ lock # 0 =>
       /\ cache' = cache
       /\ err' # err => cpc[lock] = "grab" /\ cpc'[lock] = "returned"
       /\ gm' # gm => mpc = "gm_done"
       /\ gmOut' # gmOut => mpc = "gm_done"
       /\ errRead' # errRead => mpc = "gle_done"
       /\ out' = out
       /\ lock' # lock => lock' = 0 /\ cpc'[lock] = "returned"

C10_AtomicAndSerialized == []C10_State /\ [][C10_Step]_vars

\* A capture holds the session while getMonitors waits between two lookups.
C10_Witness ==
  /\ lock \in Calls
  /\ mpc = "gm_width"
  /\ Len(cache.list) = 2
  /\ platform # cache.list


\* A capture whose native call recorded an error.
FailedCapture(c) == Back(c) /\ nerr[c] # NoError

\* C11: after a failing capture the error slot holds a text; the release of the
\* failed capture's null or zero-length frame does no harm to the heap; and the
\* message read after that release, carried by the thrown Error, is the text
\* the failed capture recorded.
C11_FailedCaptureText ==
  \A c \in Calls :
    /\ FailedCapture(c) => err # NoError
    /\ (FailedCapture(c) /\ cpc[c] \in {"failing", "settled"}) =>
         frees[c] = 1 /\ heap[c] = "unalloc"
    /\ (FailedCapture(c) /\ Done(c)) =>
         out[c].kind = "rejected" /\ out[c].msg = nerr[c]

\* The release step of the failure path leaves the error slot and the frame
\* buffers as they were.
C11_ReleaseKeepsSlot ==
  [][\A c \in Calls :
       (cpc[c] = "returned" /\ cpc'[c] = "failing") => err' = err /\ heap' = heap]_vars


\* C12: with several captures in flight and two of them failing with different
\* texts, the Error each one rejects with carries the text its own native
\* capture recorded, not the text the other capture recorded.
C12_OwnErrorText ==
  \A c, d \in Calls :
    (c # d /\ FailedCapture(c) /\ Done(c) /\ FailedCapture(d) /\ nerr[d] # nerr[c]) =>
      out[c].msg = nerr[c] /\ out[c].msg # nerr[d]

====
